---------------------------- MODULE Spec2Model ----------------------------
(***************************************************************************)
(* A model of scripts/scrape.ts: the daily documentation scraper.          *)
(*                                                                         *)
(* One run: main() takes the current instant, launches the five fetchers   *)
(* together, joins them with Promise.all, builds the summary, renders the  *)
(* markdown report and saves it under daily/<year>/<month>/<day>.md.       *)
(*                                                                         *)
(* Representation.                                                         *)
(*  - An instant is a number of minutes since 1970-01-01T00:00Z (the       *)
(*    script's milliseconds, at the resolution of a minute).               *)
(*  - A string is a sequence of fragments (TLA+ strings); concatenation    *)
(*    is \o.  Numbers and dates are formatted digit by digit, so padding,  *)
(*    substring and split act on what they act on in the script.           *)
(*  - null and undefined are the fragments-free markers Null and Undef.    *)
(***************************************************************************)
EXTENDS Integers, Sequences, FiniteSets, TLC

(***************************************************************************)
(* Bounds of the model.                                                    *)
(***************************************************************************)
\* The clock advances at most this many minutes past the first run's start.
MaxDelay == 1
\* Raw API lists hold at most this many entries in the filter specification.
MaxRaw == 2
\* Runs of the script in the rerun specification.
MaxRuns == 2

(***************************************************************************)
(* Program constants.                                                      *)
(***************************************************************************)
\* 24 * 60 * 60 * 1000 ms, in minutes.
OneDay == 24 * 60
\* release.body?.substring(0, 200)
BodyLimit == 200
\* commit.sha.substring(0, 7)
ShaLimit == 7
\* report.docs.slice(0, 20)
DocLimit == 20
\* report.releaseNotes.slice(0, 10)
NoteLimit == 10
\* padStart(2, "0")
PadWidth == 2

(***************************************************************************)
(* JavaScript values and strings.                                          *)
(***************************************************************************)
\* null and undefined, as one-fragment markers no string of the model equals.
Null == <<"#null">>
Undef == <<"#undefined">>
IsNullish(v) == v = Null \/ v = Undef

\* An invalid Date's time value.  Instants of the model are never negative.
NaN == -1

Min(a, b) == IF a < b THEN a ELSE b

\* ToBoolean of a string-or-nullish value: "", null and undefined are falsy.
Truthy(v) == ~IsNullish(v) /\ v # <<>>

\* a || b
OrElse(a, b) == IF Truthy(a) THEN a ELSE b

\* String(v) as the + operator applies it to an operand that is not a number.
ToStr(v) ==
    IF v = Undef THEN <<"u", "n", "d", "e", "f", "i", "n", "e", "d">>
    ELSE IF v = Null THEN <<"n", "u", "l", "l">>
    ELSE v

\* a + b where b is a string: string concatenation of String(a) and b.
Plus(a, b) == ToStr(a) \o ToStr(b)

\* s.substring(0, n)
Substring0(s, n) == SubSeq(s, 1, Min(n, Len(s)))

\* v?.substring(0, n): undefined when v is null or undefined.
OptSubstring0(v, n) == IF IsNullish(v) THEN Undef ELSE Substring0(v, n)

\* xs.slice(0, n)
Slice0(xs, n) == SubSeq(xs, 1, Min(n, Len(xs)))

\* The index of the first fragment of s equal to sep, or Len(s) + 1.
RECURSIVE FirstIndexFrom(_, _, _)
FirstIndexFrom(s, sep, i) ==
    IF i > Len(s) THEN i
    ELSE IF s[i] = sep THEN i
    ELSE FirstIndexFrom(s, sep, i + 1)

\* s.split(sep)[0]: the text before the first separator.
SplitFirst(s, sep) == SubSeq(s, 1, FirstIndexFrom(s, sep, 1) - 1)

\* The index of the last fragment of s equal to sep, or 0.
RECURSIVE LastIndexFrom(_, _, _)
LastIndexFrom(s, sep, i) ==
    IF i < 1 THEN 0
    ELSE IF s[i] = sep THEN i
    ELSE LastIndexFrom(s, sep, i - 1)

\* s.split(sep).pop(): the text after the last separator.
SplitLast(s, sep) == SubSeq(s, LastIndexFrom(s, sep, Len(s)) + 1, Len(s))

Digits == <<"0", "1", "2", "3", "4", "5", "6", "7", "8", "9">>

\* n.toString() for n >= 0, and `${n}` in a template.
RECURSIVE NumStr(_)
NumStr(n) ==
    IF n < 10 THEN <<Digits[n + 1]>>
    ELSE NumStr(n \div 10) \o <<Digits[(n % 10) + 1]>>

\* s.padStart(len, ch)
PadStart(s, len, ch) ==
    IF Len(s) >= len THEN s
    ELSE [i \in 1..(len - Len(s)) |-> ch] \o s

\* The value of a decimal digit character, or NaN.
DigitVal(c) ==
    CASE c = "0" -> 0 [] c = "1" -> 1 [] c = "2" -> 2 [] c = "3" -> 3
      [] c = "4" -> 4 [] c = "5" -> 5 [] c = "6" -> 6 [] c = "7" -> 7
      [] c = "8" -> 8 [] c = "9" -> 9 [] OTHER -> NaN

\* The number a run of digit characters denotes, or NaN.
RECURSIVE ParseNum(_)
ParseNum(s) ==
    IF s = <<>> THEN NaN
    ELSE LET d == DigitVal(s[Len(s)])
         IN IF d = NaN THEN NaN
            ELSE IF Len(s) = 1 THEN d
            ELSE LET hi == ParseNum(SubSeq(s, 1, Len(s) - 1))
                 IN IF hi = NaN THEN NaN ELSE hi * 10 + d

(***************************************************************************)
(* The Date built-in: instants, the proleptic Gregorian calendar, the      *)
(* host's time zone.                                                       *)
(***************************************************************************)
MinutesPerDay == 24 * 60

\* The civil date of a day number (days since 1970-01-01).
CivilFromDays(z0) ==
    LET z == z0 + 719468
        era == z \div 146097
        doe == z - era * 146097
        yoe == (doe - doe \div 1460 + doe \div 36524 - doe \div 146096) \div 365
        doy == doe - (365 * yoe + yoe \div 4 - yoe \div 100)
        mp == (5 * doy + 2) \div 153
        d == doy - (153 * mp + 2) \div 5 + 1
        m == IF mp < 10 THEN mp + 3 ELSE mp - 9
        y == yoe + era * 400 + (IF m <= 2 THEN 1 ELSE 0)
    IN [year |-> y, month |-> m, day |-> d]

\* The day number of a civil date.
DaysFromCivil(y0, m, d) ==
    LET y == IF m <= 2 THEN y0 - 1 ELSE y0
        era == y \div 400
        yoe == y - era * 400
        doy == (153 * (IF m > 2 THEN m - 3 ELSE m + 9) + 2) \div 5 + d - 1
        doe == yoe * 365 + yoe \div 4 - yoe \div 100 + doy
    IN era * 146097 + doe - 719468

IsLeap(y) == (y % 4 = 0 /\ y % 100 # 0) \/ y % 400 = 0

DaysInMonth(y, m) ==
    IF m = 2 THEN (IF IsLeap(y) THEN 29 ELSE 28)
    ELSE IF m \in {4, 6, 9, 11} THEN 30 ELSE 31

\* The UTC fields of an instant.
UTCFields(t) ==
    LET c == CivilFromDays(t \div MinutesPerDay)
        r == t % MinutesPerDay
    IN [year |-> c.year, month |-> c.month, day |-> c.day,
        hour |-> r \div 60, minute |-> r % 60]

\* The local fields of an instant on a host offset minutes east of UTC:
\* getFullYear, getMonth (0-based), getDate.
LocalFields(t, offset) ==
    LET f == UTCFields(t + offset)
    IN [year |-> f.year, month0 |-> f.month - 1, day |-> f.day]

\* date.toISOString(): YYYY-MM-DDTHH:mm:ss.sssZ, always in UTC.
ToISOString(t) ==
    LET f == UTCFields(t)
    IN PadStart(NumStr(f.year), 4, "0") \o <<"-">>
       \o PadStart(NumStr(f.month), 2, "0") \o <<"-">>
       \o PadStart(NumStr(f.day), 2, "0") \o <<"T">>
       \o PadStart(NumStr(f.hour), 2, "0") \o <<":">>
       \o PadStart(NumStr(f.minute), 2, "0") \o <<":", "0", "0", ".", "0", "0", "0", "Z">>

\* The timestamp format of the GitHub API: YYYY-MM-DDTHH:mm:ssZ.
ApiTime(t) ==
    LET f == UTCFields(t)
    IN PadStart(NumStr(f.year), 4, "0") \o <<"-">>
       \o PadStart(NumStr(f.month), 2, "0") \o <<"-">>
       \o PadStart(NumStr(f.day), 2, "0") \o <<"T">>
       \o PadStart(NumStr(f.hour), 2, "0") \o <<":">>
       \o PadStart(NumStr(f.minute), 2, "0") \o <<":", "0", "0", "Z">>

\* new Date(s).getTime() for a date-time string: the instant, or NaN when s
\* is not a date-time (an invalid Date).
DateParse(s) ==
    IF IsNullish(s) \/ Len(s) < 17 THEN NaN
    ELSE IF ~(s[5] = "-" /\ s[8] = "-" /\ s[11] = "T" /\ s[14] = ":" /\ s[17] = ":"
              /\ s[Len(s)] = "Z")
    THEN NaN
    ELSE LET y == ParseNum(SubSeq(s, 1, 4))
             mo == ParseNum(SubSeq(s, 6, 7))
             d == ParseNum(SubSeq(s, 9, 10))
             h == ParseNum(SubSeq(s, 12, 13))
             mi == ParseNum(SubSeq(s, 15, 16))
         IN IF NaN \in {y, mo, d, h, mi} THEN NaN
            ELSE IF mo < 1 \/ mo > 12 \/ d < 1 \/ h > 23 \/ mi > 59 THEN NaN
            ELSE IF d > DaysInMonth(y, mo) THEN NaN
            ELSE DaysFromCivil(y, mo, d) * MinutesPerDay + h * 60 + mi

\* a > b on two Dates: false when either is invalid.
DateAfter(a, b) == a # NaN /\ b # NaN /\ a > b


(***************************************************************************)
(* Generic sequence helpers.                                               *)
(***************************************************************************)
\* The concatenation of a sequence of strings.
RECURSIVE ConcatAll(_)
ConcatAll(ss) ==
    IF ss = <<>> THEN <<>> ELSE Head(ss) \o ConcatAll(Tail(ss))

\* parts.join(sep)
RECURSIVE JoinWith(_, _)
JoinWith(parts, sep) ==
    IF parts = <<>> THEN <<>>
    ELSE IF Len(parts) = 1 THEN parts[1]
    ELSE parts[1] \o sep \o JoinWith(Tail(parts), sep)

\* The elements of xs in order of first occurrence, each once: what iterating
\* a Set filled from xs yields.
RECURSIVE Dedup(_)
Dedup(xs) ==
    IF xs = <<>> THEN <<>>
    ELSE LET init == Dedup(SubSeq(xs, 1, Len(xs) - 1))
             last == xs[Len(xs)]
         IN IF \E i \in 1..Len(init) : init[i] = last THEN init
            ELSE Append(init, last)

(***************************************************************************)
(* formatDate and getDateParts.                                            *)
(***************************************************************************)
\* date.toISOString().split("T")[0]
formatDate(t) == SplitFirst(ToISOString(t), "T")

\* The year, month and day strings of a Date, read with the local getters.
getDateParts(t, offset) ==
    LET f == LocalFields(t, offset)
    IN [year |-> NumStr(f.year),
        month |-> PadStart(NumStr(f.month0 + 1), PadWidth, "0"),
        day |-> PadStart(NumStr(f.day), PadWidth, "0")]

(***************************************************************************)
(* The fetchers, as functions of the response and of the instant at which  *)
(* the response is processed.  A response is [kind, body]: kind is         *)
(* "neterr" (fetch rejects), "http_error" (response.ok is false),          *)
(* "bad_body" (reading or mapping the body throws) or "ok".                *)
(***************************************************************************)
Fetchers == {"commits", "releases", "prs", "docs", "notes"}

FailureKinds == {"neterr", "http_error", "bad_body"}
Failures == {[kind |-> k, body |-> <<>>] : k \in FailureKinds}
OkResponses(bodies) == {[kind |-> "ok", body |-> b] : b \in bodies}

\* commits.map(...): the short sha and the first line of the message.
MapCommit(c) ==
    [sha |-> Substring0(c.sha, ShaLimit),
     message |-> SplitFirst(c.message, "\n"),
     author_name |-> c.author_name,
     author_date |-> c.author_date,
     html_url |-> c.html_url]

fetchRecentCommits(resp) ==
    IF resp.kind # "ok" THEN <<>>
    ELSE [i \in 1..Len(resp.body) |-> MapCommit(resp.body[i])]

\* A release filter that lets the boundary instant in (>= for >).
ReleaseIsRecentInclusive(r, oneDayAgo) ==
    Truthy(r.published_at) /\ DateParse(r.published_at) # NaN
    /\ DateParse(r.published_at) >= oneDayAgo

\* r.published_at && new Date(r.published_at) > oneDayAgo
ReleaseIsRecent(r, oneDayAgo) ==
    Truthy(r.published_at) /\ DateAfter(DateParse(r.published_at), oneDayAgo)

\* release.body?.substring(0, 200) + "..." || ""
\* (+ binds tighter than ||).
ReleaseBody(body) ==
    OrElse(Plus(OptSubstring0(body, BodyLimit), <<"...">>), <<>>)

MapRelease(r) ==
    [tag_name |-> r.tag_name,
     name |-> OrElse(r.name, r.tag_name),
     html_url |-> r.html_url,
     published_at |-> r.published_at,
     body |-> ReleaseBody(r.body)]

fetchRecentReleases(resp, now) ==
    IF resp.kind # "ok" THEN <<>>
    ELSE LET oneDayAgo == now - OneDay
             kept == SelectSeq(resp.body, LAMBDA r : ReleaseIsRecent(r, oneDayAgo))
         IN [i \in 1..Len(kept) |-> MapRelease(kept[i])]

\* A pull-request filter that lets the boundary instant in (>= for >).
PRIsRecentInclusive(pr, oneDayAgo) ==
    Truthy(pr.merged_at) /\ DateParse(pr.merged_at) # NaN
    /\ DateParse(pr.merged_at) >= oneDayAgo

\* pr.merged_at && new Date(pr.merged_at) > oneDayAgo
PRIsRecent(pr, oneDayAgo) ==
    Truthy(pr.merged_at) /\ DateAfter(DateParse(pr.merged_at), oneDayAgo)

MapPR(pr) ==
    [number |-> pr.number, title |-> pr.title, html_url |-> pr.html_url,
     merged_at |-> pr.merged_at]

fetchRecentPRs(resp, now) ==
    IF resp.kind # "ok" THEN <<>>
    ELSE LET oneDayAgo == now - OneDay
             kept == SelectSeq(resp.body, LAMBDA pr : PRIsRecent(pr, oneDayAgo))
         IN [i \in 1..Len(kept) |-> MapPR(kept[i])]

\* The documentation index is the sequence of its attributes [attr, value];
\* an attribute value is a sequence of fragments, the separators "/docs/" and
\* "/" being fragments of their own.  /href="\/docs\/([^"]+)"/g matches an
\* href whose value starts with /docs/ and goes on.
DocsBaseUrl == <<"https://code.claude.com/docs">>

IsDocLink(a) == a.attr = "href" /\ Len(a.value) >= 2 /\ a.value[1] = "/docs/"

DocLinks(html) ==
    LET hits == SelectSeq(html, IsDocLink)
    IN Dedup([i \in 1..Len(hits) |-> Tail(hits[i].value)])

DocPageOf(link, now) ==
    [title |-> OrElse(SplitLast(link, "/"), link),
     url |-> DocsBaseUrl \o <<"/">> \o link,
     lastUpdated |-> ToISOString(now)]

checkDocumentationUpdates(resp, now) ==
    IF resp.kind # "ok" THEN <<>>
    ELSE LET links == DocLinks(resp.body)
         IN [i \in 1..Len(links) |-> DocPageOf(links[i], now)]

\* The release-notes page is the sequence of its elements [open, close,
\* inner]; inner is a sequence of pieces [k, s], k being "tag", "ws"
\* (whitespace) or "text".  /<h[23][^>]*>(.*?)<\/h[23]>/gi matches an element
\* opened and closed by an h2 or h3 tag, in either case.
H23 == {"h2", "h3", "H2", "H3"}

IsHeading(e) == e.open \in H23 /\ e.close \in H23

\* match[1].replace(/<[^>]*>/g, '')
StripTags(inner) == SelectSeq(inner, LAMBDA p : p.k # "tag")

\* .trim()
RECURSIVE TrimLeft(_)
TrimLeft(ps) ==
    IF ps # <<>> /\ Head(ps).k = "ws" THEN TrimLeft(Tail(ps)) ELSE ps

RECURSIVE TrimRight(_)
TrimRight(ps) ==
    IF ps # <<>> /\ ps[Len(ps)].k = "ws"
    THEN TrimRight(SubSeq(ps, 1, Len(ps) - 1)) ELSE ps

NoteText(e) ==
    LET ps == TrimRight(TrimLeft(StripTags(e.inner)))
    IN [i \in 1..Len(ps) |-> ps[i].s]

checkReleaseNotes(resp) ==
    IF resp.kind # "ok" THEN <<>>
    ELSE LET hs == SelectSeq(resp.body, IsHeading)
             texts == [i \in 1..Len(hs) |-> NoteText(hs[i])]
         IN SelectSeq(texts, LAMBDA t : Truthy(t) /\ Len(t) > 0)

(***************************************************************************)
(* main's summary.                                                         *)
(***************************************************************************)
\* A plural rule that adds the s from one on (>= for >).
PluralSuffixFromOne(n) == IF n >= 1 THEN <<"s">> ELSE <<>>

\* `${n} commit${n > 1 ? "s" : ""}`
PluralSuffix(n) == IF n > 1 THEN <<"s">> ELSE <<>>

SummaryPart(n, noun) == NumStr(n) \o <<noun>> \o PluralSuffix(n)

\* if (xs.length > 0) parts.push(...)
PushIfAny(n, noun) == IF n > 0 THEN <<SummaryPart(n, noun)>> ELSE <<>>

SummaryParts(commits, releases, prs, docs, releaseNotes) ==
    PushIfAny(Len(commits), " commit")
    \o PushIfAny(Len(releases), " release")
    \o PushIfAny(Len(prs), " PR")
    \o PushIfAny(Len(docs), " doc page")
    \o PushIfAny(Len(releaseNotes), " release note")

BuildSummary(commits, releases, prs, docs, releaseNotes) ==
    LET parts == SummaryParts(commits, releases, prs, docs, releaseNotes)
    IN IF Len(parts) = 0
       THEN <<"No updates detected in the last 24 hours.">>
       ELSE <<"Daily updates: ">> \o JoinWith(parts, <<", ">>) \o <<".">>

(***************************************************************************)
(* generateMarkdown.  (Its first statement, getDateParts(new Date(         *)
(* report.date)), binds three names the function never reads.)             *)
(***************************************************************************)
MdHead(report, generated) ==
    <<"# Anthropic Claude Code Documentation Update - ">> \o report.date \o <<"\n\n">>
    \o <<"**Generated:** ">> \o ToISOString(generated) \o <<"\n\n">>
    \o <<"## Summary\n\n">>
    \o report.summary \o <<"\n\n">>

CommitLines(c) ==
    <<"- [">> \o c.sha \o <<"](">> \o c.html_url \o <<") - ">> \o c.message \o <<"\n">>
    \o <<"  - by ">> \o c.author_name \o <<" at ">>
    \o ToISOString(DateParse(c.author_date)) \o <<"\n">>

MdCommits(commits) ==
    IF Len(commits) > 0
    THEN <<"## GitHub Commits (">> \o NumStr(Len(commits)) \o <<")\n\n">>
         \o ConcatAll([i \in 1..Len(commits) |-> CommitLines(commits[i])])
         \o <<"\n">>
    ELSE <<"## GitHub Commits\n\nNo commits in the last 24 hours.\n\n">>

ReleaseLines(r) ==
    <<"- [">> \o r.tag_name \o <<"](">> \o r.html_url \o <<") - ">> \o r.name \o <<"\n">>
    \o <<"  - ">> \o r.body \o <<"\n">>
    \o <<"  - Published: ">> \o ToISOString(DateParse(r.published_at)) \o <<"\n">>

MdReleases(releases) ==
    IF Len(releases) > 0
    THEN <<"## Releases (">> \o NumStr(Len(releases)) \o <<")\n\n">>
         \o ConcatAll([i \in 1..Len(releases) |-> ReleaseLines(releases[i])])
         \o <<"\n">>
    ELSE <<"## Releases\n\nNo new releases in the last 24 hours.\n\n">>

PRLines(pr) ==
    <<"- [#">> \o NumStr(pr.number) \o <<"](">> \o pr.html_url \o <<") - ">>
    \o pr.title \o <<"\n">>
    \o <<"  - Merged: ">> \o ToISOString(DateParse(pr.merged_at)) \o <<"\n">>

MdPRs(prs) ==
    IF Len(prs) > 0
    THEN <<"## Merged Pull Requests (">> \o NumStr(Len(prs)) \o <<")\n\n">>
         \o ConcatAll([i \in 1..Len(prs) |-> PRLines(prs[i])])
         \o <<"\n">>
    ELSE <<"## Merged Pull Requests\n\nNo PRs merged in the last 24 hours.\n\n">>

DocLine(doc) == <<"- [">> \o doc.title \o <<"](">> \o doc.url \o <<")\n">>

\* The documentation pages itemized: report.docs.slice(0, 20).
DocsShown(docs) == Slice0(docs, DocLimit)

\* A truncation test that fires at the limit itself (>= for >).
DocsTruncatedAtLimit(docs) == Len(docs) >= DocLimit

\* if (report.docs.length > 20)
DocsTruncated(docs) == Len(docs) > DocLimit

MdDocs(docs) ==
    IF Len(docs) > 0
    THEN <<"## Documentation Pages (">> \o NumStr(Len(docs)) \o <<")\n\n">>
         \o <<"*Current documentation pages available:\n\n">>
         \o ConcatAll([i \in 1..Len(DocsShown(docs)) |-> DocLine(DocsShown(docs)[i])])
         \o (IF DocsTruncated(docs)
             THEN <<"\n*... and ">> \o NumStr(Len(docs) - DocLimit) \o <<" more pages*\n">>
             ELSE <<>>)
         \o <<"\n">>
    ELSE <<>>

NoteLine(note) == <<"- ">> \o note \o <<"\n">>

\* The release notes itemized: report.releaseNotes.slice(0, 10).
NotesShown(notes) == Slice0(notes, NoteLimit)

\* if (report.releaseNotes.length > 10)
NotesTruncated(notes) == Len(notes) > NoteLimit

MdNotes(notes) ==
    IF Len(notes) > 0
    THEN <<"## Platform Release Notes\n\n">>
         \o ConcatAll([i \in 1..Len(NotesShown(notes)) |-> NoteLine(NotesShown(notes)[i])])
         \o (IF NotesTruncated(notes)
             THEN <<"\n*... and ">> \o NumStr(Len(notes) - NoteLimit) \o <<" more entries*\n">>
             ELSE <<>>)
         \o <<"\n">>
    ELSE <<>>

MdFooter ==
    <<"---\n",
      "*Generated by [claude-code-anthropic-docs](https://github.com/ebowwa/claude-code-anthropic-docs) daily automation*\n",
      "*Data sourced from [anthropics/claude-code](https://github.com/anthropics/claude-code), [code.claude.com](https://code.claude.com/docs), and [platform.claude.com](https://platform.claude.com)*\n">>

generateMarkdown(report, generated) ==
    MdHead(report, generated)
    \o MdCommits(report.github.commits)
    \o MdReleases(report.github.releases)
    \o MdPRs(report.github.pullRequests)
    \o MdDocs(report.docs)
    \o MdNotes(report.releaseNotes)
    \o MdFooter

(***************************************************************************)
(* saveReport's path.                                                      *)
(***************************************************************************)
\* `daily/${year}/${month}`
ReportDir(parts) == <<"daily/">> \o parts.year \o <<"/">> \o parts.month

\* `${dir}/${day}.md`
ReportPath(parts) == ReportDir(parts) \o <<"/">> \o parts.day \o <<".md">>


(***************************************************************************)
(* generateMarkdown throws a RangeError when it formats an invalid Date.   *)
(***************************************************************************)
MarkdownThrows(report) ==
    \/ \E i \in 1..Len(report.github.commits) :
          DateParse(report.github.commits[i].author_date) = NaN
    \/ \E i \in 1..Len(report.github.releases) :
          DateParse(report.github.releases[i].published_at) = NaN
    \/ \E i \in 1..Len(report.github.pullRequests) :
          DateParse(report.github.pullRequests[i].merged_at) = NaN

(***************************************************************************)
(* The environment: hosts, run instants, and what the remote endpoints     *)
(* answer.                                                                 *)
(***************************************************************************)
\* The instant of a UTC date and time of day.
InstantOf(y, m, d, h, mi) == DaysFromCivil(y, m, d) * MinutesPerDay + h * 60 + mi

\* Hosts and the instants they run the script at: a time zone (minutes east
\* of UTC: Los Angeles in winter, UTC, Tokyo) and a start instant.
Hosts ==
    {[start |-> InstantOf(2025, 3, 8, 4, 0), tz |-> 0 - 480],
     [start |-> InstantOf(2025, 3, 8, 4, 0), tz |-> 0],
     [start |-> InstantOf(2024, 12, 31, 20, 0), tz |-> 540]}

Text(n) == [i \in 1..n |-> Digits[(i % 10) + 1]]

RawCommit(k, t) ==
    [sha |-> <<Digits[k + 1], "a", "b", "c", "d", "e", "f", "0", "1", "2">>,
     message |-> <<"Fix issue ", Digits[k + 1], "\n", "\n", "Details.">>,
     author_name |-> <<"dev", Digits[k + 1]>>,
     author_date |-> ApiTime(t),
     html_url |-> <<"https://github.com/anthropics/claude-code/commit/", Digits[k + 1]>>]

\* Release k of the samples: names and bodies present, empty, null, absent,
\* shorter than, as long as and longer than the body limit.
RawRelease(k, pub) ==
    [tag_name |-> <<"v", Digits[k + 1]>>,
     name |-> CASE k = 1 -> <<"Release ", "1">>
                [] k = 2 -> Null
                [] k = 3 -> <<>>
                [] k = 4 -> <<"Release ", "4">>
                [] OTHER -> Undef,
     html_url |-> <<"https://github.com/anthropics/claude-code/releases/", Digits[k + 1]>>,
     published_at |-> pub,
     body |-> CASE k = 1 -> Text(3)
                [] k = 2 -> Null
                [] k = 3 -> Undef
                [] k = 4 -> Text(BodyLimit + 1)
                [] OTHER -> Text(BodyLimit)]

RawPR(k, merged) ==
    [number |-> k,
     title |-> <<"Change ", Digits[k + 1]>>,
     html_url |-> <<"https://github.com/anthropics/claude-code/pull/", Digits[k + 1]>>,
     merged_at |-> merged]

\* Timestamps around the window start of a run started at t: absent, empty,
\* not a date, and instants at and after t - 24h.
RawTimes(t) ==
    {Null, <<>>, <<"n", "/", "a">>}
    \cup {ApiTime(t - OneDay + d) : d \in {0, 1, MaxDelay + 1}}

\* The sequences over S of length at most n.
SeqUpTo(S, n) == UNION {[1..k -> S] : k \in 0..n}

\* A documentation index naming n pages, the first one twice, among other
\* attributes.
DocHref(i) ==
    IF i = 1 THEN <<"/docs/", "overview">>
    ELSE <<"/docs/", "en", "/", "page">> \o NumStr(i)

DocsHtml(n) ==
    <<[attr |-> "class", value |-> <<"/docs/", "nav">>],
      [attr |-> "href", value |-> <<"/blog/", "post">>],
      [attr |-> "href", value |-> <<"/docs/">>]>>
    \o [i \in 1..n |-> [attr |-> "href", value |-> DocHref(i)]]
    \o (IF n > 0 THEN <<[attr |-> "href", value |-> DocHref(1)]>> ELSE <<>>)

\* A release-notes page with m non-empty h2/h3 headings, among an h1, a
\* heading of markup and whitespace only, and a paragraph.
NoteElement(i) ==
    [open |-> IF i % 2 = 0 THEN "h2" ELSE "H3",
     close |-> IF i % 2 = 0 THEN "h2" ELSE "H3",
     inner |-> <<[k |-> "ws", s |-> " "], [k |-> "tag", s |-> "<a href=x>"],
                 [k |-> "text", s |-> "Note"], [k |-> "ws", s |-> " "]>>
               \o [j \in 1..Len(NumStr(i)) |-> [k |-> "text", s |-> NumStr(i)[j]]]
               \o <<[k |-> "tag", s |-> "</a>"], [k |-> "ws", s |-> "\n"]>>]

NotesHtml(m) ==
    <<[open |-> "h1", close |-> "h1", inner |-> <<[k |-> "text", s |-> "Release notes"]>>],
      [open |-> "h2", close |-> "h2",
       inner |-> <<[k |-> "ws", s |-> " "], [k |-> "tag", s |-> "<br>"]>>]>>
    \o [i \in 1..m |-> NoteElement(i)]
    \o <<[open |-> "p", close |-> "p", inner |-> <<[k |-> "text", s |-> "Text"]>>]>>


(***************************************************************************)
(* The state.                                                              *)
(***************************************************************************)
VARIABLES
    clock,        \* the current instant
    boot,         \* the instant the first run started at
    tz,           \* the host's time zone, in minutes east of UTC
    shell,        \* whether the host binds the free identifier $ (the file
                  \* never imports or declares it): "bound", "unbound", or
                  \* "unknown" until saveReport first evaluates it
    runs,         \* runs of the script started so far
    pc,           \* where main is: idle, fetching, mkdir, write, done, rejected
    today,        \* main's today
    dateStr,      \* main's dateStr
    since,        \* fetchRecentCommits' since, sent with its request
    resp,         \* per fetcher, the response it has processed (kind "none"
                  \* while its request is in flight)
    cutoff,       \* per filtering fetcher, the oneDayAgo it computed
    result,       \* per fetcher, the collection its promise resolved to
    summary,      \* main's summary
    generatedAt,  \* the instant generateMarkdown read for its Generated line
    markdown,     \* main's markdown
    filepath,     \* saveReport's filepath
    dirs,         \* the directories that exist
    fs            \* the files that exist: path -> content

vars == <<clock, boot, tz, shell, runs, pc, today, dateStr, since, resp,
          cutoff, result, summary, generatedAt, markdown, filepath, dirs, fs>>

host == <<boot, tz>>
disk == <<dirs, fs>>
frame == <<today, dateStr, since>>
output == <<summary, generatedAt, markdown, filepath>>

NoResp == [kind |-> "none", body |-> <<>>]

Settled(f) == resp[f].kind # "none"

\* A join that resumes main at the first promise to resolve (Promise.race
\* for Promise.all).
AnySettled == \E f \in Fetchers : resp[f].kind # "none"

\* The join of Promise.all: every one of the five promises has resolved.
AllSettled == \A f \in Fetchers : Settled(f)

FreshRun ==
    /\ pc = "idle"
    /\ today = NaN
    /\ dateStr = <<>>
    /\ since = <<>>
    /\ resp = [f \in Fetchers |-> NoResp]
    /\ cutoff = [f \in {"releases", "prs"} |-> NaN]
    /\ result = [f \in Fetchers |-> <<>>]
    /\ summary = <<>>
    /\ generatedAt = NaN
    /\ markdown = <<>>
    /\ filepath = <<>>

Init ==
    /\ \E h \in Hosts : clock = h.start /\ tz = h.tz
    /\ boot = clock
    /\ shell = "unknown"
    /\ runs = 0
    /\ dirs = {}
    /\ fs = <<>>
    /\ FreshRun

(***************************************************************************)
(* Time passes.                                                            *)
(***************************************************************************)
Tick ==
    /\ clock < boot + MaxDelay
    /\ clock' = clock + 1
    /\ UNCHANGED <<host, shell, runs, pc, frame, resp, cutoff, result, output, disk>>

(***************************************************************************)
(* main, up to its await of Promise.all: today, dateStr, and the five      *)
(* fetchers called in turn, each running to its await of fetch.            *)
(***************************************************************************)
Start ==
    /\ pc = "idle"
    /\ today' = clock
    /\ dateStr' = formatDate(clock)
    /\ since' = ToISOString(clock - OneDay)
    /\ runs' = runs + 1
    /\ pc' = "fetching"
    /\ UNCHANGED <<clock, host, shell, resp, cutoff, result, output, disk>>

(***************************************************************************)
(* A fetcher's request is answered and the fetcher runs to its return: one *)
(* action per fetcher, over the answers the environment may give.          *)
(***************************************************************************)
InFlight(f) == pc = "fetching" /\ ~Settled(f)

Answered(f, r, value) ==
    /\ resp' = [resp EXCEPT ![f] = r]
    /\ result' = [result EXCEPT ![f] = value]
    /\ UNCHANGED <<clock, host, shell, runs, pc, frame, output, disk>>

CommitsRespond(answers) ==
    /\ InFlight("commits")
    /\ \E r \in answers :
          /\ Answered("commits", r, fetchRecentCommits(r))
          /\ UNCHANGED cutoff

ReleasesRespond(answers) ==
    /\ InFlight("releases")
    /\ \E r \in answers :
          /\ Answered("releases", r, fetchRecentReleases(r, clock))
          /\ cutoff' = IF r.kind = "ok"
                       THEN [cutoff EXCEPT !["releases"] = clock - OneDay]
                       ELSE cutoff

PRsRespond(answers) ==
    /\ InFlight("prs")
    /\ \E r \in answers :
          /\ Answered("prs", r, fetchRecentPRs(r, clock))
          /\ cutoff' = IF r.kind = "ok"
                       THEN [cutoff EXCEPT !["prs"] = clock - OneDay]
                       ELSE cutoff

DocsRespond(answers) ==
    /\ InFlight("docs")
    /\ \E r \in answers :
          /\ Answered("docs", r, checkDocumentationUpdates(r, clock))
          /\ UNCHANGED cutoff

NotesRespond(answers) ==
    /\ InFlight("notes")
    /\ \E r \in answers :
          /\ Answered("notes", r, checkReleaseNotes(r))
          /\ UNCHANGED cutoff

(***************************************************************************)
(* main after the join: the summary, the report, generateMarkdown, and     *)
(* saveReport up to its first await.  saveReport evaluates $ there; on a   *)
(* host that does not bind it the evaluation throws a ReferenceError,      *)
(* saveReport's promise rejects, main's does, and main().catch logs it.    *)
(***************************************************************************)
Report ==
    [date |-> dateStr,
     summary |-> BuildSummary(result["commits"], result["releases"], result["prs"],
                              result["docs"], result["notes"]),
     github |-> [commits |-> result["commits"], releases |-> result["releases"],
                 pullRequests |-> result["prs"]],
     docs |-> result["docs"],
     releaseNotes |-> result["notes"]]

\* What evaluating $ finds: the same on every run of one host.
ShellOutcomes == IF shell = "unknown" THEN {"bound", "unbound"} ELSE {shell}

Join ==
    /\ pc = "fetching"
    /\ AllSettled
    /\ summary' = Report.summary
    /\ IF MarkdownThrows(Report)
       THEN /\ pc' = "rejected"
            /\ UNCHANGED <<generatedAt, markdown, filepath, shell>>
       ELSE /\ generatedAt' = clock
            /\ markdown' = generateMarkdown(Report, clock)
            /\ filepath' = ReportPath(getDateParts(today, tz))
            /\ shell' \in ShellOutcomes
            /\ pc' = IF shell' = "bound" THEN "mkdir" ELSE "rejected"
    /\ UNCHANGED <<clock, host, runs, frame, resp, cutoff, result, disk>>

\* mkdir -p: the directory and its parents exist afterwards.
DirsOf(parts) ==
    {<<"daily">>, <<"daily/">> \o parts.year, ReportDir(parts)}

Mkdir ==
    /\ pc = "mkdir"
    /\ dirs' = dirs \cup DirsOf(getDateParts(today, tz))
    /\ pc' = "write"
    /\ UNCHANGED <<clock, host, shell, runs, frame, resp, cutoff, result, output, fs>>

\* Bun.write(filepath, markdown): the file holds markdown afterwards.
Write ==
    /\ pc = "write"
    /\ fs' = (filepath :> markdown) @@ fs
    /\ pc' = "done"
    /\ UNCHANGED <<clock, host, shell, runs, frame, resp, cutoff, result, output, dirs>>

\* The script is run again: a new process, the same host and disk.
Rerun ==
    /\ pc \in {"done", "rejected"}
    /\ runs < MaxRuns
    /\ pc' = "idle"
    /\ today' = NaN
    /\ dateStr' = <<>>
    /\ since' = <<>>
    /\ resp' = [f \in Fetchers |-> NoResp]
    /\ cutoff' = [f \in {"releases", "prs"} |-> NaN]
    /\ result' = [f \in Fetchers |-> <<>>]
    /\ summary' = <<>>
    /\ generatedAt' = NaN
    /\ markdown' = <<>>
    /\ filepath' = <<>>
    /\ UNCHANGED <<clock, host, shell, runs, disk>>

(***************************************************************************)
(* Specifications.  They share the program and differ in what the          *)
(* environment answers.                                                    *)
(***************************************************************************)
\* Spec: one run; every fetcher may fail in each way or succeed.
RunCommits ==
    Failures \cup OkResponses({<<RawCommit(1, today - 60), RawCommit(2, today - 30)>>})
RunReleases ==
    Failures \cup OkResponses({<<RawRelease(2, Null),
                                 RawRelease(1, ApiTime(today - OneDay + 1))>>})
RunPRs ==
    Failures \cup OkResponses({<<RawPR(1, ApiTime(today - OneDay + 1)),
                                 RawPR(2, ApiTime(today))>>})
RunDocs == Failures \cup OkResponses({DocsHtml(2)})
RunNotes == Failures \cup OkResponses({NotesHtml(1)})

Next ==
    \/ Tick
    \/ Start
    \/ CommitsRespond(RunCommits)
    \/ ReleasesRespond(RunReleases)
    \/ PRsRespond(RunPRs)
    \/ DocsRespond(RunDocs)
    \/ NotesRespond(RunNotes)
    \/ Join
    \/ Mkdir
    \/ Write

Spec == Init /\ [][Next]_vars


\* SpecReleases: the release API answers with any list of at most MaxRaw
\* entries; the other four endpoints are down.
Down == {[kind |-> "http_error", body |-> <<>>]}

ReleaseEntries ==
    {RawRelease(1, p) : p \in RawTimes(today)}
    \cup {RawRelease(k, ApiTime(today)) : k \in {2, 3, 4, 5}}

AnyReleases == Failures \cup OkResponses(SeqUpTo(ReleaseEntries, MaxRaw))

NextReleases ==
    \/ Tick
    \/ Start
    \/ CommitsRespond(Down)
    \/ ReleasesRespond(AnyReleases)
    \/ PRsRespond(Down)
    \/ DocsRespond(Down)
    \/ NotesRespond(Down)
    \/ Join
    \/ Mkdir
    \/ Write

SpecReleases == Init /\ [][NextReleases]_vars

\* SpecPRs: the pull-request API answers with any list of at most MaxRaw
\* entries; the other four endpoints are down.
PREntries == {RawPR(1, p) : p \in RawTimes(today)} \cup {RawPR(2, ApiTime(today))}

AnyPRs == Failures \cup OkResponses(SeqUpTo(PREntries, MaxRaw))

NextPRs ==
    \/ Tick
    \/ Start
    \/ CommitsRespond(Down)
    \/ ReleasesRespond(Down)
    \/ PRsRespond(AnyPRs)
    \/ DocsRespond(Down)
    \/ NotesRespond(Down)
    \/ Join
    \/ Mkdir
    \/ Write

SpecPRs == Init /\ [][NextPRs]_vars

\* SpecReport: every endpoint answers at once, with collections of every
\* size class the summary and the renderer tell apart.
SomeCommits == OkResponses({[i \in 1..n |-> RawCommit(i, today - 60)] : n \in 0..2})
SomeReleases == OkResponses({[i \in 1..n |-> RawRelease(i, ApiTime(today))] : n \in 0..2})
SomePRs == OkResponses({[i \in 1..n |-> RawPR(i, ApiTime(today))] : n \in 0..2})
SomeDocs == OkResponses({DocsHtml(n) : n \in {0, 1, DocLimit, DocLimit + 1, DocLimit + 5}})
SomeNotes == OkResponses({NotesHtml(m) : m \in {0, 1, NoteLimit, NoteLimit + 1, NoteLimit + 2}})

NextReport ==
    \/ Start
    \/ CommitsRespond(SomeCommits)
    \/ ReleasesRespond(SomeReleases)
    \/ PRsRespond(SomePRs)
    \/ DocsRespond(SomeDocs)
    \/ NotesRespond(SomeNotes)
    \/ Join
    \/ Mkdir
    \/ Write

SpecReport == Init /\ [][NextReport]_vars

\* SpecRerun: the script is run up to MaxRuns times on one host; the commit
\* API and the release-notes page are up or down, the rest is down.
UpOrDownCommits == Down \cup OkResponses({<<RawCommit(1, today - 60)>>})
UpOrDownNotes == Down \cup OkResponses({NotesHtml(1)})

NextRerun ==
    \/ Tick
    \/ Start
    \/ CommitsRespond(UpOrDownCommits)
    \/ ReleasesRespond(Down)
    \/ PRsRespond(Down)
    \/ DocsRespond(Down)
    \/ NotesRespond(UpOrDownNotes)
    \/ Join
    \/ Mkdir
    \/ Write
    \/ Rerun

SpecRerun == Init /\ [][NextRerun]_vars


(***************************************************************************)
(* Reading what the run produced back.                                     *)
(***************************************************************************)
RunEnded == pc \in {"done", "rejected"}
Joined == pc \in {"mkdir", "write", "done", "rejected"}

ZeroSentence == <<"No updates detected in the last 24 hours.">>

\* The text of a report's summary section.
SummaryIn(md) ==
    LET i == FirstIndexFrom(md, "## Summary\n\n", 1)
    IN SubSeq(md, i + 1, FirstIndexFrom(md, "\n\n", i + 1) - 1)

\* The date in a report's title line.
TitleDateIn(md) == SubSeq(md, 2, FirstIndexFrom(md, "\n\n", 1) - 1)

TwoDigits(n) == <<Digits[(n \div 10) + 1], Digits[(n % 10) + 1]>>
FourDigits(n) == TwoDigits(n \div 100) \o TwoDigits(n % 100)

\* daily/YYYY/MM/DD.md for a calendar date.
PathOfDate(y, m, d) ==
    <<"daily/">> \o FourDigits(y) \o <<"/">> \o TwoDigits(m) \o <<"/">>
    \o TwoDigits(d) \o <<".md">>

\* A timestamp field is present when it is neither null nor absent.
Present(v) == v # Null /\ v # Undef

\* The entries of raw whose timestamp field is present and strictly later
\* than the boundary, in raw's order.
RECURSIVE LaterThan(_, _, _)
LaterThan(raw, field, boundary) ==
    IF raw = <<>> THEN <<>>
    ELSE LET e == Head(raw)
             rest == LaterThan(Tail(raw), field, boundary)
         IN IF Present(e[field]) /\ DateParse(e[field]) > boundary
            THEN <<e>> \o rest ELSE rest

\* The boundary a filtering fetcher applied is 24 hours before an instant of
\* the run.
BoundaryOfRun(f) == cutoff[f] + OneDay \in today..clock

(***************************************************************************)
(* C1.  Resilience: when every one of the five fetchers fails, main still  *)
(* runs to completion and saveReport writes a report file whose summary is *)
(* the zero-activity sentence; the run never ends without a report having  *)
(* been written.                                                           *)
(***************************************************************************)
AllFailed == \A f \in Fetchers : resp[f].kind \in FailureKinds

\* C1: a run in which all five fetchers failed ends with pc = "done" and a
\* file at filepath whose summary section is the zero-activity sentence.
C1_ResilientRun ==
    (RunEnded /\ AllFailed) =>
        /\ pc = "done"
        /\ filepath \in DOMAIN fs
        /\ SummaryIn(fs[filepath]) = ZeroSentence

\* All five fetchers failed on a host that does not bind $: the run ended
\* rejected, with the zero-activity summary built and nothing written.
C1_Witness ==
    /\ AllFailed
    /\ pc = "rejected"
    /\ shell = "unbound"
    /\ summary = ZeroSentence
    /\ fs = <<>>

\* What holds of the code: the summary is the zero-activity sentence, and the
\* report is written on a host that binds $.
C1_SummaryOfFailedRun ==
    (RunEnded /\ AllFailed) =>
        /\ summary = ZeroSentence
        /\ SummaryIn(markdown) = ZeroSentence
        /\ shell = "bound" => (pc = "done" /\ filepath \in DOMAIN fs /\ fs[filepath] = markdown)

(***************************************************************************)
(* C2.  fetchRecentReleases returns an entry if and only if its            *)
(* published_at is present and strictly later than now - 24h; the retained *)
(* entries keep their relative order.                                      *)
(***************************************************************************)
C2_ReleasesFiltered ==
    resp["releases"].kind = "ok" =>
        LET kept == LaterThan(resp["releases"].body, "published_at", cutoff["releases"])
            got == result["releases"]
        IN /\ BoundaryOfRun("releases")
           /\ Len(got) = Len(kept)
           /\ \A i \in 1..Len(got) :
                 /\ got[i].tag_name = kept[i].tag_name
                 /\ got[i].published_at = kept[i].published_at
                 /\ got[i].html_url = kept[i].html_url

\* Two entries, the first published exactly at the boundary and dropped, the
\* second published later and kept.
C2_Witness ==
    /\ resp["releases"].kind = "ok"
    /\ Len(resp["releases"].body) = 2
    /\ DateParse(resp["releases"].body[1].published_at) = cutoff["releases"]
    /\ Len(result["releases"]) = 1
    /\ result["releases"][1].tag_name = resp["releases"].body[2].tag_name

(***************************************************************************)
(* C3.  fetchRecentPRs returns an entry if and only if its merged_at is    *)
(* present and strictly later than now - 24h; entries merged at the        *)
(* boundary, earlier, or never merged (null merged_at) are excluded.       *)
(***************************************************************************)
C3_PRsFiltered ==
    resp["prs"].kind = "ok" =>
        LET kept == LaterThan(resp["prs"].body, "merged_at", cutoff["prs"])
            got == result["prs"]
        IN /\ BoundaryOfRun("prs")
           /\ Len(got) = Len(kept)
           /\ \A i \in 1..Len(got) :
                 /\ got[i].number = kept[i].number
                 /\ got[i].merged_at = kept[i].merged_at
                 /\ got[i].title = kept[i].title
           /\ \A i \in 1..Len(got) :
                 /\ got[i].merged_at # Null
                 /\ DateParse(got[i].merged_at) > cutoff["prs"]

\* Two requests, one merged later than the boundary and kept, one closed
\* without merge and dropped; and one merged exactly at the boundary, dropped.
C3_Witness ==
    /\ resp["prs"].kind = "ok"
    /\ Len(resp["prs"].body) = 2
    /\ Len(result["prs"]) = 1
    /\ resp["prs"].body[2].merged_at = Null
    /\ result["prs"][1].number = resp["prs"].body[1].number

C3_WitnessBoundary ==
    /\ resp["prs"].kind = "ok"
    /\ Len(resp["prs"].body) = 1
    /\ DateParse(resp["prs"].body[1].merged_at) = cutoff["prs"]
    /\ result["prs"] = <<>>

(***************************************************************************)
(* C4.  The summary is the zero-activity sentence if and only if all five  *)
(* counts are zero; otherwise it is "Daily updates: ", one part per        *)
(* non-empty category in the fixed order, joined by ", " and ended by ".": *)
(* each part the count, then the singular noun for 1 and the plural noun   *)
(* for more.                                                               *)
(***************************************************************************)
Categories == <<"commits", "releases", "prs", "docs", "notes">>

Singular == <<<<" commit">>, <<" release">>, <<" PR">>, <<" doc page">>, <<" release note">>>>
Plural == <<<<" commit", "s">>, <<" release", "s">>, <<" PR", "s">>, <<" doc page", "s">>,
            <<" release note", "s">>>>

CountOf(k) == Len(result[Categories[k]])

RECURSIVE PartsFrom(_)
PartsFrom(k) ==
    IF k > Len(Categories) THEN <<>>
    ELSE IF CountOf(k) = 0 THEN PartsFrom(k + 1)
    ELSE LET part == NumStr(CountOf(k))
                     \o (IF CountOf(k) = 1 THEN Singular[k] ELSE Plural[k])
             rest == PartsFrom(k + 1)
         IN IF rest = <<>> THEN part ELSE part \o <<", ">> \o rest

\* C4: after the join the summary is the zero-activity sentence iff all five
\* counts are zero, and otherwise "Daily updates: " \o the parts \o "."; the
\* rendered report carries that summary.
C4_SummaryText ==
    Joined =>
        /\ (summary = ZeroSentence) <=> (\A k \in 1..Len(Categories) : CountOf(k) = 0)
        /\ (\E k \in 1..Len(Categories) : CountOf(k) > 0) =>
               summary = <<"Daily updates: ">> \o PartsFrom(1) \o <<".">>
        /\ markdown # <<>> => SummaryIn(markdown) = summary

\* One commit, two releases, nothing else: "Daily updates: 1 commit, 2 releases."
C4_Witness ==
    /\ pc = "done"
    /\ Len(result["commits"]) = 1
    /\ Len(result["releases"]) = 2
    /\ summary = <<"Daily updates: ", "1", " commit", ", ", "2", " release", "s", ".">>
    /\ SummaryIn(fs[filepath]) = summary

(***************************************************************************)
(* C5.  generateMarkdown itemizes exactly the first min(n, 20) doc pages   *)
(* and appends "... and (n - 20) more pages" if and only if n > 20; it     *)
(* itemizes exactly the first min(m, 10) release notes and appends "...    *)
(* and (m - 10) more entries" if and only if m > 10; each section is       *)
(* omitted entirely when its list is empty.                                *)
(***************************************************************************)
FirstItems(xs, n) == [i \in 1..(IF Len(xs) < n THEN Len(xs) ELSE n) |-> xs[i]]

DocsSectionExpected(docs) ==
    IF docs = <<>> THEN <<>>
    ELSE <<"## Documentation Pages (">> \o NumStr(Len(docs)) \o <<")\n\n">>
         \o <<"*Current documentation pages available:\n\n">>
         \o ConcatAll([i \in 1..Len(FirstItems(docs, 20)) |->
                          <<"- [">> \o docs[i].title \o <<"](">> \o docs[i].url \o <<")\n">>])
         \o (IF Len(docs) > 20
             THEN <<"\n*... and ">> \o NumStr(Len(docs) - 20) \o <<" more pages*\n">>
             ELSE <<>>)
         \o <<"\n">>

NotesSectionExpected(notes) ==
    IF notes = <<>> THEN <<>>
    ELSE <<"## Platform Release Notes\n\n">>
         \o ConcatAll([i \in 1..Len(FirstItems(notes, 10)) |->
                          <<"- ">> \o notes[i] \o <<"\n">>])
         \o (IF Len(notes) > 10
             THEN <<"\n*... and ">> \o NumStr(Len(notes) - 10) \o <<" more entries*\n">>
             ELSE <<>>)
         \o <<"\n">>

\* C5: the rendered report is the head, the three GitHub sections, then the
\* documentation and release-notes sections as the claim words them (first
\* 20 / first 10 items, the "more" note iff longer, nothing when empty), then
\* the footer.
C5_TruncatedLists ==
    markdown # <<>> =>
        markdown = MdHead(Report, generatedAt)
                   \o MdCommits(result["commits"])
                   \o MdReleases(result["releases"])
                   \o MdPRs(result["prs"])
                   \o DocsSectionExpected(result["docs"])
                   \o NotesSectionExpected(result["notes"])
                   \o MdFooter

\* 25 doc pages and 12 notes, rendered and written.
C5_Witness ==
    /\ pc = "done"
    /\ Len(result["docs"]) = 25
    /\ Len(result["notes"]) = 12
    /\ fs[filepath] = markdown
    /\ \E i \in 1..Len(markdown) : markdown[i] = " more pages*\n" /\ markdown[i - 1] = "5"
    /\ \E i \in 1..Len(markdown) : markdown[i] = " more entries*\n" /\ markdown[i - 1] = "2"

(***************************************************************************)
(* C6.  A retained release's body is the first 200 characters of the raw   *)
(* body followed by "..." when the raw body is present, and the empty      *)
(* string when it is absent (null or undefined); its name is the raw name  *)
(* when present and the tag otherwise.                                     *)
(***************************************************************************)
C6_BodyAndName ==
    resp["releases"].kind = "ok" =>
        LET kept == LaterThan(resp["releases"].body, "published_at", cutoff["releases"])
            got == result["releases"]
        IN \A i \in 1..Len(got) :
              /\ got[i].body = IF Present(kept[i].body)
                               THEN FirstItems(kept[i].body, 200) \o <<"...">>
                               ELSE <<>>
              /\ got[i].name = IF Present(kept[i].name) /\ kept[i].name # <<>>
                               THEN kept[i].name
                               ELSE kept[i].tag_name

\* One retained release whose raw body is null: its record's body is
\* "undefined...".
C6_Witness ==
    /\ resp["releases"].kind = "ok"
    /\ Len(resp["releases"].body) = 1
    /\ resp["releases"].body[1].body = Null
    /\ Len(result["releases"]) = 1
    /\ result["releases"][1].body = <<"u", "n", "d", "e", "f", "i", "n", "e", "d", "...">>

\* What holds of the code: a present body is cut and marked, the name falls
\* back to the tag, and an absent body becomes "undefined...".
C6_BodyAsCoded ==
    resp["releases"].kind = "ok" =>
        LET kept == LaterThan(resp["releases"].body, "published_at", cutoff["releases"])
            got == result["releases"]
        IN \A i \in 1..Len(got) :
              /\ got[i].body = IF Present(kept[i].body)
                               THEN FirstItems(kept[i].body, 200) \o <<"...">>
                               ELSE <<"u", "n", "d", "e", "f", "i", "n", "e", "d", "...">>
              /\ got[i].name = IF Present(kept[i].name) /\ kept[i].name # <<>>
                               THEN kept[i].name
                               ELSE kept[i].tag_name

(***************************************************************************)
(* C7.  saveReport(text, d) writes text to, and returns, the path          *)
(* daily/<4-digit year>/<2-digit month>/<2-digit day>.md built from d's    *)
(* parts, creating the directory if absent and overwriting what is there:  *)
(* after any sequence of runs for the same date the file holds the last    *)
(* run's report.                                                           *)
(***************************************************************************)
LocalDate == UTCFields(today + tz)

\* C7: every ended run has written its report to daily/YYYY/MM/DD.md of its
\* date, in a directory that exists, and the file holds the last run's report.
C7_PathAndOverwrite ==
    RunEnded =>
        /\ pc = "done"
        /\ filepath = PathOfDate(LocalDate.year, LocalDate.month, LocalDate.day)
        /\ filepath \in DOMAIN fs
        /\ fs[filepath] = markdown
        /\ \E dir \in dirs : dir \o <<"/">> \o TwoDigits(LocalDate.day) \o <<".md">> = filepath

\* The second run on a host that does not bind $ ended with a report
\* rendered and no file on disk.
C7_Witness ==
    /\ runs = 2
    /\ pc = "rejected"
    /\ markdown # <<>>
    /\ dirs = {}
    /\ fs = <<>>

\* What holds of the code: the path is the one of the local date, and on a
\* host that binds $ the file holds the last run's report.
C7_PathWhenShellBound ==
    (RunEnded /\ markdown # <<>>) =>
        /\ filepath = PathOfDate(LocalDate.year, LocalDate.month, LocalDate.day)
        /\ shell = "bound" =>
              /\ pc = "done"
              /\ fs[filepath] = markdown
              /\ \E dir \in dirs : dir \o <<"/">> \o TwoDigits(LocalDate.day) \o <<".md">> = filepath
              /\ Cardinality(DOMAIN fs) = 1

(***************************************************************************)
(* C8.  Fan-out/fan-in: the summary is built, the report rendered and the  *)
(* file written only after all five fetchers have completed; a fetcher     *)
(* that fails or is slow never short-circuits the join, never prevents the *)
(* others from completing, and contributes an empty collection while the   *)
(* other collections reach the report unchanged.                           *)
(***************************************************************************)
C8_JoinAfterAll ==
    (Joined \/ summary # <<>> \/ markdown # <<>> \/ fs # <<>>) =>
        \A f \in Fetchers : resp[f].kind \in FailureKinds \cup {"ok"}

C8_FailureIsEmpty ==
    \A f \in Fetchers : resp[f].kind \in FailureKinds => result[f] = <<>>

C8_OthersCanComplete ==
    pc = "fetching" =>
        /\ ~Settled("commits") => ENABLED CommitsRespond(Down)
        /\ ~Settled("releases") => ENABLED ReleasesRespond(Down)
        /\ ~Settled("prs") => ENABLED PRsRespond(Down)
        /\ ~Settled("docs") => ENABLED DocsRespond(Down)
        /\ ~Settled("notes") => ENABLED NotesRespond(Down)

\* A collection that was delivered is the one its fetcher resolved to.
C8_DeliveredIsKept ==
    /\ resp["commits"].kind = "ok" =>
          result["commits"] = fetchRecentCommits(resp["commits"])
    /\ resp["releases"].kind = "ok" =>
          result["releases"] = fetchRecentReleases(resp["releases"], cutoff["releases"] + OneDay)
    /\ resp["prs"].kind = "ok" =>
          result["prs"] = fetchRecentPRs(resp["prs"], cutoff["prs"] + OneDay)
    /\ resp["docs"].kind = "ok" =>
          LET links == DocLinks(resp["docs"].body)
          IN /\ Len(result["docs"]) = Len(links)
             /\ \A i \in 1..Len(links) :
                   result["docs"][i].url = DocsBaseUrl \o <<"/">> \o links[i]
    /\ resp["notes"].kind = "ok" =>
          result["notes"] = checkReleaseNotes(resp["notes"])

\* The report is the one of the five collections.
C8_ReportHoldsResults ==
    markdown # <<>> =>
        /\ markdown = generateMarkdown(Report, generatedAt)
        /\ summary = Report.summary

\* C8: the join waits for all five fetchers, a failed fetcher contributes
\* the empty collection, an unanswered fetcher can always still complete, and
\* delivered collections reach the report unchanged.
C8_FanOutFanIn ==
    /\ C8_JoinAfterAll
    /\ C8_FailureIsEmpty
    /\ C8_OthersCanComplete
    /\ C8_DeliveredIsKept
    /\ C8_ReportHoldsResults

\* A finished run in which the commit fetcher failed and the other four
\* delivered.
C8_Witness ==
    /\ pc = "done"
    /\ resp["commits"].kind \in FailureKinds
    /\ \A f \in Fetchers \ {"commits"} : resp[f].kind = "ok" /\ result[f] # <<>>
    /\ fs[filepath] = markdown

(***************************************************************************)
(* C9.  Within one run the three time-windowed fetchers all apply the same *)
(* inclusion boundary, the instant 24 hours before the run's start time,   *)
(* however long each remote call takes.                                    *)
(***************************************************************************)
C9_OneBoundary ==
    Joined =>
        /\ DateParse(since) = today - OneDay
        /\ \A f \in {"releases", "prs"} :
              resp[f].kind = "ok" => cutoff[f] = today - OneDay

\* The release API answered a minute after the run started: the commits'
\* boundary is 24 hours before the start, the releases' a minute later.
C9_Witness ==
    /\ Joined
    /\ resp["releases"].kind = "ok"
    /\ DateParse(since) = today - OneDay
    /\ cutoff["releases"] = today - OneDay + 1

(***************************************************************************)
(* C10.  The date of the report's title (formatDate) and the date encoded  *)
(* in the path it is written to (getDateParts) are the same date: the file *)
(* daily/Y/M/D.md always contains a report titled with the date Y-M-D.     *)
(***************************************************************************)
\* Y-M-D read from a path daily/Y/M/D.md of digits.
DateOfPath(p) == SubSeq(p, 2, 5) \o <<"-">> \o SubSeq(p, 7, 8) \o <<"-">> \o SubSeq(p, 10, 11)

\* C10: every file daily/Y/M/D.md holds a report whose title date is Y-M-D.
C10_TitleMatchesPath ==
    \A p \in DOMAIN fs :
        /\ Len(p) = 12
        /\ TitleDateIn(fs[p]) = DateOfPath(p)

\* A run at 2024-12-31T20:00Z on a host nine hours east of UTC: the report
\* titled 2024-12-31 is in daily/2025/01/01.md.
C10_Witness ==
    /\ pc = "done"
    /\ tz = 540
    /\ UTCFields(today).year = 2024
    /\ filepath = PathOfDate(2025, 1, 1)
    /\ TitleDateIn(fs[filepath]) = formatDate(today)
    /\ TitleDateIn(fs[filepath]) # DateOfPath(filepath)

=============================================================================
